---- MODULE Spec2Model ----
(***************************************************************************)
(* Model of the Omada controller client: session state (token, baseURL),  *)
(* the request executor (getJSON/postJSON/doJSON), the two-phase          *)
(* authenticate(), retryOnce(), and the paginated ConnectedClients()      *)
(* with dedupeClients().                                                   *)
(*                                                                         *)
(* Strings that are URL paths are modelled by their split on "/": a       *)
(* non-empty sequence of slash-free segments, so "" is <<"">>, "/" is     *)
(* <<"","">>, "/r/a" is <<"","r","a">>, and s + "/" + t is s \o t.         *)
(* The scheme and host of the configured URL are fixed and left out; a    *)
(* base URL is represented by the path that follows the host.             *)
(***************************************************************************)
EXTENDS Integers, Sequences, FiniteSets, TLC

VARIABLES
    controller,   \* the controller the client talks to: the values its answers are drawn from
    configPath,   \* Client.configPath
    baseURL,      \* Client.baseURL
    token,        \* Client.token
    pc,           \* position of the caller: new, failed, idle (no call in progress),
                  \* auth_start, auth_info, auth_login, auth_ret (in authenticate),
                  \* loop, try, page, after_loop (in ConnectedClients / retryOnce)
    caller,       \* who invoked authenticate(): "NewClient" or "retryOnce"
    clients,      \* ConnectedClients: accumulator
    currentPage,  \* ConnectedClients: loop variable
    r,            \* ConnectedClients: the decoded ClientsResult of this iteration
    retried,      \* retryOnce: the retried flag
    warned,       \* ConnectedClients: the "too many pages" warning was logged
    ret,          \* value returned by the call that finished last
    req,          \* the HTTP request sent last (in flight while pc is a waiting position)
    tries,        \* history: invocations of try() in the current retryOnce call
    authErrs,     \* history: results of authenticate() in the current NewClient/retryOnce call
    lastAuth,     \* history: identity, token and result of the latest authenticate() run
    served,       \* history: successful page envelopes answered in the current ConnectedClients call
    reqLog,       \* history: page numbers requested in the current call (a repeat of the same page is logged once)
    lastId,       \* history: the controller identity discovered last, by any authenticate() run
    authLog,      \* history: requests of authenticate() in the current NewClient/retryOnce call and their answers
    call,         \* history: the session at the entry of the current ConnectedClients call, and
                  \* whether an answer of the call was classified token-expired
    cpc,          \* concurrent calls: position of each caller in ConnectedClients / retryOnce / authenticate
    cretried,     \* concurrent calls: the retried flag of each caller's retryOnce
    creq,         \* concurrent calls: the HTTP request each caller builds or has in flight
    cret,         \* concurrent calls: the error each caller's call returned
    srvTokens,    \* concurrent calls: the tokens the controller accepts
    lastDone,     \* concurrent calls: result of the authenticate() run that returned last
    dIn,          \* dedupe harness: input of dedupeClients
    dOut,         \* dedupe harness: output of dedupeClients
    dOut2,        \* dedupe harness: output of dedupeClients applied to dOut
    dPhase        \* dedupe harness: 0 = input drawn, 1 = applied once, 2 = applied twice

vars == <<controller, configPath, baseURL, token, pc, caller, clients, currentPage, r, retried,
          warned, ret, req, tries, authErrs, lastAuth, served, reqLog,
          lastId, authLog, call,
          cpc, cretried, creq, cret, srvTokens, lastDone,
          dIn, dOut, dOut2, dPhase>>

sessionVars == <<controller, configPath, baseURL, token>>
fetchVars == <<clients, currentPage, r, retried, warned, served, reqLog, tries>>
dedupeVars == <<dIn, dOut, dOut2, dPhase>>
histVars == <<lastId, authLog, call>>
concVars == <<cpc, cretried, creq, cret, srvTokens, lastDone>>

----------------------------------------------------------------------------
(* Program constants *)

maxPages == 10

TokenExpiredCode == 0 - 1200

errTokenExpired == "token expired/unauthorized"

nil == "nil"

StatusUnauthorized == 401

StatusOK == 200

----------------------------------------------------------------------------
(* Bounds of the model *)

\* longest input sequence handed to dedupeClients in the dedupe harness
MaxDedupeLen == 4

\* most records the controller hands out, over all pages, in one listing
MaxRows == 11

None == "none"

----------------------------------------------------------------------------
(* strings.TrimSuffix, strings.HasSuffix, strings.HasPrefix, string +      *)

HasSuffixSlash(s) == Len(s) >= 2 /\ s[Len(s)] = ""

HasPrefixSlash(s) == Len(s) >= 2 /\ s[1] = ""

\* faulty variant: the trailing separator is kept
TrimSuffix_NoTrim(s) == s

TrimSuffix(s) == IF HasSuffixSlash(s) THEN SubSeq(s, 1, Len(s) - 1) ELSE s

\* s + t on strings: the last segment of s continues into the first of t
StrCat(s, t) == SubSeq(s, 1, Len(s) - 1) \o <<s[Len(s)] \o t[1]>> \o Tail(t)

----------------------------------------------------------------------------
(* path.Clean on a rooted path, as path.Join applies it: empty and "."     *)
(* segments are dropped, ".." removes the segment before it (nothing at    *)
(* the root), and the result has no trailing slash unless it is "/".      *)

RECURSIVE CleanSegs(_, _)
CleanSegs(segs, out) ==
    IF segs = <<>> THEN out
    ELSE LET h == Head(segs) IN
         IF h = "" \/ h = "." THEN CleanSegs(Tail(segs), out)
         ELSE IF h = ".." THEN
              CleanSegs(Tail(segs), IF out = <<>> THEN out ELSE SubSeq(out, 1, Len(out) - 1))
         ELSE CleanSegs(Tail(segs), Append(out, h))

CleanRooted(p) ==
    LET out == CleanSegs(Tail(p), <<>>)
    IN IF out = <<>> THEN <<"", "">> ELSE <<"">> \o out

\* url.Parse fails on an invalid percent-escape
BadSegment == "%zz"

ParseOK(u) == \A i \in 1..Len(u) : u[i] # BadSegment

\* url.JoinPath(base, elem) for a URL with a host: the path of the result as
\* URL.String() prints it after the host
\* faulty variant: plain concatenation, nothing cleaned
JoinPath_Cumulative(base, elem) == base \o elem

JoinPath(base, elem) ==
    LET rooted == HasPrefixSlash(base)
        e0 == IF rooted THEN base ELSE <<"">> \o base
        joined == CleanRooted(IF elem = <<"">> THEN e0 ELSE e0 \o elem)
        p0 == IF rooted THEN joined ELSE Tail(joined)
        p == IF HasSuffixSlash(elem) /\ ~HasSuffixSlash(p0) THEN p0 \o <<"">> ELSE p0
    IN IF p # <<"">> /\ ~HasPrefixSlash(p) THEN <<"">> \o p ELSE p

----------------------------------------------------------------------------
(* dedupeClients: the loop over `in` with the `seen` set                   *)

RECURSIVE dedupeLoop(_, _, _, _)
dedupeLoop(in, i, seen, out) ==
    IF i > Len(in) THEN out
    ELSE IF in[i].MAC \notin seen
         THEN dedupeLoop(in, i + 1, seen \cup {in[i].MAC}, Append(out, in[i]))
         ELSE dedupeLoop(in, i + 1, seen, out)

\* faulty variant: the last occurrence of a MAC is kept
RECURSIVE dedupeLoop_KeepLast(_, _, _, _)
dedupeLoop_KeepLast(in, i, seen, out) ==
    IF i < 1 THEN out
    ELSE IF in[i].MAC \notin seen
         THEN dedupeLoop_KeepLast(in, i - 1, seen \cup {in[i].MAC}, <<in[i]>> \o out)
         ELSE dedupeLoop_KeepLast(in, i - 1, seen, out)

dedupeClients_KeepLast(in) == dedupeLoop_KeepLast(in, Len(in), {}, <<>>)

dedupeClients(in) == dedupeLoop(in, 1, {}, <<>>)

----------------------------------------------------------------------------
(* Values the environment supplies *)

\* config.Path: host only, "/r", "/r/" and a URL that does not parse
Roots == {<<"">>, <<"", "r">>, <<"", "r", "">>, <<"", BadSegment>>}

\* controller identities (omadacId) the controller may answer with
Ids == {<<"a">>, <<"b">>}

EmptyString == <<"">>

\* login tokens the controller may answer with
Tokens == {"t1", "t2"}

\* client records: two share a MAC and differ in another field
Rec(mac, name) == [MAC |-> mac, Name |-> name]

Records == {Rec("m1", "x"), Rec("m1", "y"), Rec("m2", "x")}

\* payloads of one page
PageDatas ==
    {<<>>, <<Rec("m1", "x")>>, <<Rec("m1", "y"), Rec("m2", "x")>>}

\* a totalRows that no accumulator of the model reaches
NeverRows == MaxRows + 1

TotalRowsVals == {0, 2, 3, NeverRows}

\* The controllers of the model.  One varies the session (configured root,
\* identity, token) and answers short listings; the other has one identity
\* and one token and answers listings of up to maxPages pages and more.
SessionController ==
    [roots |-> Roots, ids |-> Ids, tokens |-> Tokens,
     datas |-> {<<>>, <<Rec("m1", "x")>>}, totals |-> {0, 2}]

ListingController ==
    [roots |-> {<<"", "r">>}, ids |-> {<<"a">>}, tokens |-> {"t1"},
     datas |-> PageDatas, totals |-> TotalRowsVals]

Controllers == {SessionController, ListingController}

\* application error codes other than 0 and the token-expired sentinel
OtherErrorCodes == {5}

\* HTTP statuses other than 200 and 401
OtherStatuses == {500}

zeroResult == [errorCode |-> 0, totalRows |-> 0, data |-> <<>>]

PageBodies ==
    [errorCode : {0}, totalRows : controller.totals, data : controller.datas]
    \cup [errorCode : {TokenExpiredCode} \cup OtherErrorCodes, totalRows : {0}, data : {<<>>}]

InfoBodies == [errorCode : {0} \cup OtherErrorCodes, id : controller.ids \cup {EmptyString}]

LoginBodies == [errorCode : {0} \cup OtherErrorCodes, token : controller.tokens \cup {""}]

\* responses to a request whose JSON bodies are drawn from `bodies`: a
\* transport error (no response), a 200 with a JSON body or an undecodable
\* one, and a 401 or another status with either.  json = FALSE is a body
\* that json.Decode rejects; `body` is then not looked at.
Responses(bodies, zero) ==
    {[neterr |-> TRUE, status |-> 0, json |-> FALSE, body |-> zero]}
    \cup {[neterr |-> FALSE, status |-> StatusOK, json |-> FALSE, body |-> zero]}
    \cup [neterr : {FALSE}, status : {StatusOK}, json : {TRUE}, body : bodies]
    \cup [neterr : {FALSE}, status : {StatusUnauthorized} \cup OtherStatuses,
          json : {TRUE}, body : {b \in bodies : b.errorCode = 0}]
    \cup [neterr : {FALSE}, status : {StatusUnauthorized} \cup OtherStatuses,
          json : {FALSE}, body : {zero}]

----------------------------------------------------------------------------
(* Request executor *)

InfoPath == <<"", "api", "info">>

LoginPath == <<"", "api", "v2", "login">>

ClientsPath == <<"", "api", "v2", "sites", "site", "clients">>

\* getJSON / postJSON: the request is addressed to BaseURL() + url and doJSON
\* sets the Csrf-Token header from Token()
NewRequest(kind, path, page) ==
    [kind |-> kind, url |-> StrCat(baseURL, path), token |-> token, page |-> page]

noRequest == [kind |-> None, url |-> EmptyString, token |-> "", page |-> 0]

\* doJSON: classification of the response; the error it returns
\* faulty variant: a 401 is an HTTP error like any other
doJSON_No401(resp) ==
    IF resp.neterr THEN "net"
    ELSE IF resp.status # StatusOK THEN "http"
    ELSE IF ~resp.json THEN "decode"
    ELSE nil

doJSON(resp) ==
    IF resp.neterr THEN "net"
    ELSE IF resp.status = StatusUnauthorized THEN errTokenExpired
    ELSE IF resp.status # StatusOK THEN "http"
    ELSE IF ~resp.json THEN "decode"
    ELSE nil

\* the closure `get` of ConnectedClients after getJSON returned: rr is r after
\* the decode
\* faulty variant: errorCode -1200 is an application error like any other
getResult_NoSentinel(err, rr) ==
    IF err # nil THEN err
    ELSE IF rr.errorCode # 0 THEN "app"
    ELSE nil

getResult(err, rr) ==
    IF err # nil THEN err
    ELSE IF rr.errorCode = TokenExpiredCode THEN errTokenExpired
    ELSE IF rr.errorCode # 0 THEN "app"
    ELSE nil

\* retryOnce: the condition of the re-authentication branch
\* faulty variants: no re-authentication at all; re-authentication on any error
shouldRetry_Never(err, wasRetried) == FALSE

shouldRetry_AnyError(err, wasRetried) == err # nil /\ ~wasRetried

shouldRetry(err, wasRetried) == err = errTokenExpired /\ ~wasRetried

\* ConnectedClients: the break condition after a page was appended
\* faulty variants: totalRows must be exceeded; an empty page does not stop
stopFetching_Strict(acc, rr) == Len(acc) > rr.totalRows \/ Len(rr.data) = 0

stopFetching_NoEmptyCheck(acc, rr) == Len(acc) >= rr.totalRows

stopFetching(acc, rr) == Len(acc) >= rr.totalRows \/ Len(rr.data) = 0

\* ConnectedClients: the loop condition
\* faulty variant: one page more than maxPages
morePages_OffByOne(page) == page <= maxPages + 1

morePages(page) == page <= maxPages

\* SetBaseURL: the new base URL, or the error of url.JoinPath
\* faulty variant: the segment is joined onto the current base URL
SetBaseURL_OnCurrent(path) ==
    IF ~ParseOK(configPath) THEN [err |-> "url", base |-> baseURL]
    ELSE [err |-> nil, base |-> TrimSuffix(JoinPath(baseURL, path))]

SetBaseURL(path) ==
    IF ~ParseOK(configPath) THEN [err |-> "url", base |-> baseURL]
    ELSE [err |-> nil, base |-> TrimSuffix(JoinPath(configPath, path))]

----------------------------------------------------------------------------
(* Initial state: no client constructed yet *)

noReturn == [op |-> None, client |-> FALSE, clients |-> <<>>, err |-> nil]

noAuth == [id |-> EmptyString, tok |-> "", result |-> None]

noCall == [expired |-> FALSE, token |-> "", base |-> EmptyString]

InitHist ==
    /\ lastId = EmptyString
    /\ authLog = <<>>
    /\ call = noCall

InitFetch ==
    /\ clients = <<>>
    /\ currentPage = 0
    /\ r = zeroResult
    /\ retried = FALSE
    /\ warned = FALSE
    /\ served = <<>>
    /\ reqLog = <<>>
    /\ tries = <<>>

\* the callers that use one client at the same time
Callers == {"c1", "c2"}

InitConcIdle ==
    /\ cpc = [p \in Callers |-> "idle"]
    /\ cretried = [p \in Callers |-> FALSE]
    /\ creq = [p \in Callers |-> noRequest]
    /\ cret = [p \in Callers |-> None]
    /\ srvTokens = {}
    /\ lastDone = None

InitDedupeIdle ==
    /\ dIn = <<>>
    /\ dOut = <<>>
    /\ dOut2 = <<>>
    /\ dPhase = 0

Init ==
    /\ controller \in Controllers
    /\ configPath \in controller.roots
    /\ baseURL = EmptyString
    /\ token = ""
    /\ pc = "new"
    /\ caller = None
    /\ ret = noReturn
    /\ req = noRequest
    /\ authErrs = <<>>
    /\ lastAuth = noAuth
    /\ InitFetch
    /\ InitHist
    /\ InitConcIdle
    /\ InitDedupeIdle

----------------------------------------------------------------------------
(* NewClient: builds the Client and calls authenticate() *)

NewClient ==
    /\ pc \in {"new", "failed"}
    /\ baseURL' = TrimSuffix(configPath)
    /\ token' = ""
    /\ caller' = "NewClient"
    /\ authErrs' = <<>>
    /\ pc' = "auth_start"
    /\ ret' = noReturn
    /\ authLog' = <<>>
    /\ UNCHANGED <<controller, configPath, req, lastAuth, fetchVars, lastId, call, dedupeVars, concVars>>

\* faulty variant: the client is returned whatever authenticate() returned
NewClientReturn_IgnoreError ==
    /\ pc = "auth_ret"
    /\ caller = "NewClient"
    /\ pc' = "idle"
    /\ ret' = [op |-> "NewClient", client |-> TRUE, clients |-> <<>>, err |-> nil]
    /\ caller' = None
    /\ UNCHANGED <<sessionVars, req, authErrs, lastAuth, fetchVars, histVars, dedupeVars, concVars>>

\* NewClient after authenticate() returned
NewClientReturn ==
    /\ pc = "auth_ret"
    /\ caller = "NewClient"
    /\ LET err == authErrs[Len(authErrs)] IN
       /\ pc' = IF err # nil THEN "failed" ELSE "idle"
       /\ ret' = [op |-> "NewClient", client |-> (err = nil), clients |-> <<>>, err |-> err]
    /\ caller' = None
    /\ UNCHANGED <<sessionVars, req, authErrs, lastAuth, fetchVars, histVars, dedupeVars, concVars>>

----------------------------------------------------------------------------
(* authenticate() *)

\* the token authenticate() starts with: SetToken("")
\* faulty variant: the token of the session is kept
authResetToken_Keep == token

authResetToken == ""

\* an authenticate() request that was sent and is not answered yet
Pending == 0 - 1

\* SetToken(""), SetBaseURL("/"), then the GET /api/info is sent
AuthStart ==
    /\ pc = "auth_start"
    /\ token' = authResetToken
    /\ LET sb == SetBaseURL(<<"", "">>) IN
       IF sb.err # nil
       THEN /\ baseURL' = baseURL
            /\ req' = req
            /\ lastAuth' = [id |-> EmptyString, tok |-> "", result |-> "failed"]
            /\ authErrs' = Append(authErrs, sb.err)
            /\ authLog' = authLog
            /\ pc' = "auth_ret"
       ELSE /\ baseURL' = sb.base
            /\ req' = [kind |-> "info", url |-> StrCat(sb.base, InfoPath),
                       token |-> authResetToken, page |-> 0]
            /\ lastAuth' = [id |-> EmptyString, tok |-> "", result |-> "running"]
            /\ authErrs' = authErrs
            /\ authLog' = Append(authLog, [kind |-> "info", status |-> Pending])
            /\ pc' = "auth_info"
    /\ UNCHANGED <<controller, configPath, caller, ret, fetchVars, lastId, call, dedupeVars, concVars>>

\* the answer to GET /api/info; on a controller identity SetBaseURL(id) and
\* the POST /api/v2/login is sent
\* the answered and the newly sent request in the log of authenticate()
Answered(log, status) ==
    [log EXCEPT ![Len(log)] = [kind |-> log[Len(log)].kind, status |-> status]]

\* authenticate() after getJSON("/api/info") returned err and decoded the
\* identity id: the error it returns now, nil if it goes on to the login
\* faulty variant: an empty identity is accepted
discoveryError_NoEmptyCheck(err, id, joinErr) ==
    IF err # nil THEN err ELSE joinErr

discoveryError(err, id, joinErr) ==
    IF err # nil THEN err
    ELSE IF id = EmptyString THEN "discovery"
    ELSE joinErr

AuthInfoResp ==
    /\ pc = "auth_info"
    /\ \E resp \in Responses(InfoBodies, [errorCode |-> 0, id |-> EmptyString]) :
       LET err == doJSON(resp)
           id == resp.body.id
           sb == SetBaseURL(id)
           fail == discoveryError(err, id, sb.err)
           log == Answered(authLog, resp.status)
       IN /\ lastId' = IF err = nil /\ id # EmptyString THEN id ELSE lastId
          /\ IF fail # nil
             THEN /\ baseURL' = baseURL
                  /\ req' = noRequest
                  /\ lastAuth' = [id |-> IF err = nil THEN id ELSE EmptyString,
                                  tok |-> "", result |-> "failed"]
                  /\ authErrs' = Append(authErrs, fail)
                  /\ authLog' = log
                  /\ pc' = "auth_ret"
             ELSE /\ baseURL' = sb.base
                  /\ req' = [kind |-> "login", url |-> StrCat(sb.base, LoginPath),
                             token |-> token, page |-> 0]
                  /\ lastAuth' = [id |-> id, tok |-> "", result |-> "running"]
                  /\ authErrs' = authErrs
                  /\ authLog' = Append(log, [kind |-> "login", status |-> Pending])
                  /\ pc' = "auth_login"
    /\ UNCHANGED <<controller, configPath, token, caller, ret, fetchVars, call, dedupeVars, concVars>>

\* the answer to POST /api/v2/login; on a token SetToken(token)
AuthLoginResp ==
    /\ pc = "auth_login"
    /\ \E resp \in Responses(LoginBodies, [errorCode |-> 0, token |-> ""]) :
       LET err == doJSON(resp)
           tok == resp.body.token
           fail == IF err # nil THEN err
                   ELSE IF tok = "" THEN "auth"
                   ELSE nil
       IN /\ token' = IF fail = nil THEN tok ELSE token
          /\ lastAuth' = [id |-> lastAuth.id, tok |-> IF err = nil THEN tok ELSE "",
                          result |-> IF fail = nil THEN "ok" ELSE "failed"]
          /\ authErrs' = Append(authErrs, fail)
          /\ authLog' = Answered(authLog, resp.status)
          /\ pc' = "auth_ret"
    /\ req' = noRequest
    /\ UNCHANGED <<controller, configPath, baseURL, caller, ret, fetchVars, lastId, call,
                   dedupeVars, concVars>>

----------------------------------------------------------------------------
(* ConnectedClients() and retryOnce() *)

\* entry of ConnectedClients: var clients; currentPage := 1
ConnectedClients ==
    /\ pc = "idle"
    /\ clients' = <<>>
    /\ currentPage' = 1
    /\ r' = zeroResult
    /\ retried' = FALSE
    /\ warned' = FALSE
    /\ served' = <<>>
    /\ reqLog' = <<>>
    /\ tries' = <<>>
    /\ authErrs' = <<>>
    /\ authLog' = <<>>
    /\ call' = [expired |-> FALSE, token |-> token, base |-> baseURL]
    /\ pc' = "loop"
    /\ ret' = noReturn
    /\ UNCHANGED <<sessionVars, caller, req, lastAuth, lastId, dedupeVars, concVars>>

\* the loop condition; a new iteration declares r and enters retryOnce
LoopHead ==
    /\ pc = "loop"
    /\ IF morePages(currentPage)
       THEN /\ r' = zeroResult
            /\ retried' = FALSE
            /\ tries' = <<>>
            /\ authErrs' = <<>>
            /\ authLog' = <<>>
            /\ pc' = "try"
       ELSE /\ pc' = "after_loop"
            /\ UNCHANGED <<r, retried, tries, authErrs, authLog>>
    /\ UNCHANGED <<sessionVars, caller, clients, currentPage, warned, served, reqLog,
                   ret, req, lastAuth, lastId, call, dedupeVars, concVars>>

\* try(): the closure get sends the GET of the current page
Get ==
    /\ pc = "try"
    /\ req' = NewRequest("page", ClientsPath, currentPage)
    /\ reqLog' = IF reqLog # <<>> /\ reqLog[Len(reqLog)] = currentPage
                 THEN reqLog ELSE Append(reqLog, currentPage)
    /\ pc' = "page"
    /\ UNCHANGED <<sessionVars, caller, clients, currentPage, r, retried, warned, served,
                   tries, ret, authErrs, lastAuth, histVars, dedupeVars, concVars>>

\* ConnectedClients returning an error: `return nil, err`
\* faulty variant: the records accumulated so far are returned with the error
failedReturn_Partial(acc, err) ==
    [op |-> "ConnectedClients", client |-> TRUE, clients |-> dedupeClients(acc), err |-> err]

failedReturn(acc, err) ==
    [op |-> "ConnectedClients", client |-> TRUE, clients |-> <<>>, err |-> err]

\* a page envelope the controller answered with HTTP 200 and errorCode 0
IsPageEnvelope(resp) ==
    ~resp.neterr /\ resp.status = StatusOK /\ resp.json /\ resp.body.errorCode = 0

\* the answer to the page request: get() classifies it, retryOnce decides on
\* re-authentication, ConnectedClients appends the page and decides to go on
PageResp ==
    /\ pc = "page"
    /\ \E resp \in Responses(PageBodies, zeroResult) :
       /\ Len(clients) + Len(resp.body.data) <= MaxRows
       /\ LET derr == doJSON(resp)
              rr == IF derr = nil THEN resp.body ELSE r
              err == getResult(derr, rr)
              acc == clients \o rr.data
          IN /\ r' = rr
             /\ tries' = Append(tries, [page |-> req.page,
                                        token |-> req.token,
                                        url |-> req.url,
                                        status |-> resp.status,
                                        code |-> IF derr = nil THEN rr.errorCode ELSE 0,
                                        decoded |-> (derr = nil),
                                        err |-> err])
             /\ call' = [call EXCEPT !.expired = call.expired \/ err = errTokenExpired]
             /\ served' = IF IsPageEnvelope(resp)
                          THEN Append(served, [data |-> resp.body.data,
                                               totalRows |-> resp.body.totalRows])
                          ELSE served
             /\ IF shouldRetry(err, retried)
                THEN /\ retried' = TRUE
                     /\ caller' = "retryOnce"
                     /\ pc' = "auth_start"
                     /\ UNCHANGED <<clients, currentPage, ret>>
                ELSE IF err # nil
                THEN /\ pc' = "idle"
                     /\ ret' = failedReturn(clients, err)
                     /\ UNCHANGED <<clients, currentPage, retried, caller>>
                ELSE /\ clients' = acc
                     /\ IF stopFetching(acc, rr)
                        THEN /\ pc' = "after_loop"
                             /\ currentPage' = currentPage
                        ELSE /\ pc' = "loop"
                             /\ currentPage' = currentPage + 1
                     /\ UNCHANGED <<retried, caller, ret>>
    /\ req' = noRequest
    /\ UNCHANGED <<sessionVars, warned, reqLog, authErrs, lastAuth, lastId, authLog,
                   dedupeVars, concVars>>

\* retryOnce after authenticate() returned: does it return the error?
\* faulty variant: the operation is retried whatever authenticate() returned
authFailed_Ignored(err) == FALSE

authFailed(err) == err # nil

\* retryOnce after authenticate() returned: its error is returned, or goto retry
RetryAfterAuth ==
    /\ pc = "auth_ret"
    /\ caller = "retryOnce"
    /\ LET err == authErrs[Len(authErrs)] IN
       IF authFailed(err)
       THEN /\ pc' = "idle"
            /\ ret' = failedReturn(clients, err)
       ELSE /\ pc' = "try"
            /\ ret' = ret
    /\ caller' = None
    /\ UNCHANGED <<sessionVars, req, authErrs, lastAuth, fetchVars, histVars, dedupeVars, concVars>>

\* ConnectedClients after the loop: the condition of the warning
\* faulty variant: the warning is also logged when the loop broke on page maxPages
tooManyPages_Inclusive(page) == page >= maxPages

tooManyPages(page) == page > maxPages

\* after the loop: the warning, then dedupeClients and return
Finish ==
    /\ pc = "after_loop"
    /\ warned' = tooManyPages(currentPage)
    /\ ret' = [op |-> "ConnectedClients", client |-> TRUE,
               clients |-> dedupeClients(clients), err |-> nil]
    /\ pc' = "idle"
    /\ UNCHANGED <<sessionVars, caller, clients, currentPage, r, retried, served, reqLog,
                   tries, req, authErrs, lastAuth, histVars, dedupeVars, concVars>>

----------------------------------------------------------------------------

Next ==
    \/ NewClient
    \/ NewClientReturn
    \/ AuthStart
    \/ AuthInfoResp
    \/ AuthLoginResp
    \/ ConnectedClients
    \/ LoopHead
    \/ Get
    \/ PageResp
    \/ RetryAfterAuth
    \/ Finish

Spec == Init /\ [][Next]_vars

TypeOK ==
    /\ controller \in Controllers
    /\ configPath \in Roots
    /\ token \in Tokens \cup {""}
    /\ pc \in {"new", "failed", "auth_start", "auth_info", "auth_login", "auth_ret",
               "idle", "loop", "try", "page", "after_loop"}
    /\ currentPage \in 0..(maxPages + 1)
    /\ retried \in BOOLEAN
    /\ warned \in BOOLEAN
    /\ lastId \in Ids \cup {EmptyString}
    /\ Len(authLog) <= 2
    /\ call.expired \in BOOLEAN
    /\ cretried \in [Callers -> BOOLEAN]
    /\ srvTokens \subseteq Tokens

----------------------------------------------------------------------------
(* dedupeClients on its own: the input is drawn, then the function is      *)
(* applied to it and once more to its own output                           *)

RECURSIVE SeqsUpTo(_, _)
SeqsUpTo(S, n) ==
    IF n = 0 THEN {<<>>}
    ELSE LET shorter == SeqsUpTo(S, n - 1)
         IN shorter \cup {Append(q, x) : q \in {t \in shorter : Len(t) = n - 1}, x \in S}

InitDedupe ==
    /\ controller = ListingController
    /\ configPath \in controller.roots
    /\ baseURL = EmptyString
    /\ token = ""
    /\ pc = "new"
    /\ caller = None
    /\ ret = noReturn
    /\ req = noRequest
    /\ authErrs = <<>>
    /\ lastAuth = noAuth
    /\ InitFetch
    /\ InitHist
    /\ InitConcIdle
    /\ dIn \in SeqsUpTo(Records, MaxDedupeLen)
    /\ dOut = <<>>
    /\ dOut2 = <<>>
    /\ dPhase = 0

DedupeOnce ==
    /\ dPhase = 0
    /\ dOut' = dedupeClients(dIn)
    /\ dPhase' = 1
    /\ UNCHANGED <<sessionVars, pc, caller, ret, req, authErrs, lastAuth, fetchVars,
                   histVars, concVars, dIn, dOut2>>

DedupeAgain ==
    /\ dPhase = 1
    /\ dOut2' = dedupeClients(dOut)
    /\ dPhase' = 2
    /\ UNCHANGED <<sessionVars, pc, caller, ret, req, authErrs, lastAuth, fetchVars,
                   histVars, concVars, dIn, dOut>>

NextDedupe ==
    \/ DedupeOnce
    \/ DedupeAgain

SpecDedupe == InitDedupe /\ [][NextDedupe]_vars

----------------------------------------------------------------------------
(* Vocabulary of the properties *)

\* ConnectedClients has returned to its caller
Returned == pc = "idle" /\ ret.op = "ConnectedClients"

\* NewClient has returned to its caller
Constructed == pc \in {"idle", "failed"} /\ ret.op = "NewClient"

\* invocations of try() so far in the current retryOnce call
TryCount == Len(tries) + (IF pc = "page" THEN 1 ELSE 0)

\* authenticate() runs started so far in the current retryOnce / NewClient call
AuthRuns == Len(authErrs) + (IF pc \in {"auth_info", "auth_login"} THEN 1 ELSE 0)

\* the response answered to a try was HTTP 401, or HTTP 200 with errorCode -1200
IsExpiredAnswer(t) ==
    \/ t.status = StatusUnauthorized
    \/ (t.status = StatusOK /\ t.decoded /\ t.code = TokenExpiredCode)

\* the configured root: config.Path without its trailing separator
ConfiguredRoot == IF HasSuffixSlash(configPath)
                  THEN SubSeq(configPath, 1, Len(configPath) - 1)
                  ELSE configPath

\* root + "/" + id
RootSlash(id) == ConfiguredRoot \o id

\* records of the served pages 1..k, concatenated
RECURSIVE Flatten(_, _)
Flatten(pages, k) == IF k = 0 THEN <<>> ELSE Flatten(pages, k - 1) \o pages[k].data

\* number of records of the served pages 1..k, duplicates counted
RECURSIVE Acc(_)
Acc(k) == IF k = 0 THEN 0 ELSE Acc(k - 1) + Len(served[k].data)

\* after page k the accumulated count has reached that page's totalRows
RowsReached(k) == Acc(k) >= served[k].totalRows

\* positions of the first occurrence of each MAC
FirstIdx(in) == {i \in 1..Len(in) : \A j \in 1..(i - 1) : in[j].MAC # in[i].MAC}

\* out is in restricted to the first occurrence of each MAC, in the order of in
KeepsFirstOccurrences(in, out) ==
    LET F == FirstIdx(in)
    IN /\ Len(out) = Cardinality(F)
       /\ \A k \in 1..Len(out) :
            out[k] = in[CHOOSE i \in F : Cardinality({j \in F : j < i}) = k - 1]

\* every MAC of in is the MAC of exactly one element of out
EachMacOnce(in, out) ==
    \A i \in 1..Len(in) :
        Cardinality({k \in 1..Len(out) : out[k].MAC = in[i].MAC}) = 1

\* the pages 1..k, each requested, in increasing order
PagesUpTo(k) == [i \in 1..k |-> i]

\* the call stopped after the last served page and, once returned, returned
\* the served records deduplicated and no error
StoppedWithAll ==
    /\ pc \in {"after_loop", "idle"}
    /\ reqLog = PagesUpTo(Len(served))
    /\ pc = "idle" =>
         /\ ret.op = "ConnectedClients"
         /\ ret.err = nil
         /\ KeepsFirstOccurrences(Flatten(served, Len(served)), ret.clients)

----------------------------------------------------------------------------
(* C1 - Retry-once bound: when every invocation of the wrapped operation   *)
(* fails with the token-expired signal and re-authentication succeeds, a   *)
(* retryOnce call has invoked the operation exactly twice and the          *)
(* Authenticator exactly once when it returns, and it returns the second   *)
(* token-expired failure.                                                  *)
C1_RetryOnceBound ==
    (/\ Returned
     /\ tries # <<>>
     /\ \A i \in 1..Len(tries) : tries[i].err = errTokenExpired
     /\ \A i \in 1..Len(authErrs) : authErrs[i] = nil)
    => /\ Len(tries) = 2
       /\ Len(authErrs) = 1
       /\ ret.err = errTokenExpired
       /\ ret.clients = <<>>

C1_Witness ==
    /\ Returned
    /\ Len(tries) = 2
    /\ tries[1].err = errTokenExpired
    /\ tries[2].err = errTokenExpired
    /\ authErrs = <<nil>>
    /\ ret.err = errTokenExpired

(* C2 - as stated: whenever the Authenticator run triggered by the call    *)
(* succeeded, the call does not return token-expired.                      *)
C2_NeverSurfacedAfterGoodAuth ==
    (Returned /\ authErrs # <<>> /\ authErrs[Len(authErrs)] = nil)
    => ret.err # errTokenExpired

(* C2 - amended: token-expired is returned to the caller only after one    *)
(* Authenticator run, and then only if that run itself failed with         *)
(* token-expired or it succeeded and the single retry failed with          *)
(* token-expired again.                                                    *)
C2_SurfacedOnlyAfterReauth ==
    (Returned /\ ret.err = errTokenExpired)
    => /\ Len(authErrs) = 1
       /\ \/ (authErrs[1] = errTokenExpired /\ Len(tries) = 1)
          \/ (authErrs[1] = nil /\ Len(tries) = 2 /\ tries[2].err = errTokenExpired)

C2_Witness ==
    /\ Returned
    /\ ret.err = errTokenExpired
    /\ authErrs = <<nil>>
    /\ tries[1].code = TokenExpiredCode
    /\ tries[2].status = StatusUnauthorized

(* C3 - a 401 answer and a 200 answer with errorCode -1200 to a page fetch *)
(* are both, and nothing else is, classified token-expired; the first such *)
(* answer is followed by one Authenticator run and, if that run succeeds,  *)
(* by one retry of the same page; when the retry succeeds and ends the     *)
(* listing, ConnectedClients returns the records and no error.             *)
C3_SameSignalSameReaction ==
    /\ \A i \in 1..Len(tries) :
         IsExpiredAnswer(tries[i]) <=> tries[i].err = errTokenExpired
    /\ (tries # <<>> /\ IsExpiredAnswer(tries[1])) =>
         /\ retried
         /\ pc = "auth_start" \/ AuthRuns = 1
         /\ authErrs = <<nil>> =>
              /\ TryCount <= 2
              /\ pc \in {"auth_ret", "try", "page"} \/ Len(tries) = 2
              /\ pc \in {"try", "page"} => currentPage = tries[1].page
              /\ pc = "page" => req.page = tries[1].page
              /\ Len(tries) = 2 => tries[2].page = tries[1].page
         /\ (Len(tries) = 2 /\ tries[2].err = nil) =>
              /\ served # <<>>
              /\ served[Len(served)].data = r.data
              /\ clients = Flatten(served, Len(served))
              /\ pc \in {"loop", "after_loop"} \/ Returned
              /\ Returned =>
                   /\ ret.err = nil
                   /\ KeepsFirstOccurrences(Flatten(served, Len(served)), ret.clients)

C3_Witness ==
    /\ Returned
    /\ Len(tries) = 2
    /\ tries[1].status = StatusOK
    /\ tries[1].code = TokenExpiredCode
    /\ tries[2].err = nil
    /\ ret.err = nil
    /\ ret.clients # <<>>

(* C4 - Pagination completeness: when page k <= 10 is the first served     *)
(* page after which the accumulated count, duplicates counted, is at least *)
(* that page's totalRows, and no earlier page is empty, pages 1..k were    *)
(* requested in increasing order, no page is requested after k, and the    *)
(* call returns the records of pages 1..k deduplicated by MAC.             *)
C4_PaginationComplete ==
    \A k \in 1..Len(served) :
        (/\ k <= maxPages
         /\ RowsReached(k)
         /\ \A j \in 1..(k - 1) : ~RowsReached(j) /\ served[j].data # <<>>)
        => /\ Len(served) = k
           /\ StoppedWithAll

C4_Witness ==
    /\ Returned
    /\ Len(served) >= 3
    /\ RowsReached(Len(served))
    /\ served[Len(served)].data # <<>>
    /\ \A j \in 1..(Len(served) - 1) : ~RowsReached(j) /\ served[j].data # <<>>
    /\ Len(ret.clients) < Acc(Len(served))
    /\ ret.err = nil

(* C5 - Empty-page termination: when a served page has no records while    *)
(* the accumulated count is below its totalRows, no further page is        *)
(* requested and the call returns the records accumulated so far,          *)
(* deduplicated, and no error.                                             *)
C5_EmptyPageStops ==
    \A k \in 1..Len(served) :
        (served[k].data = <<>> /\ ~RowsReached(k))
        => /\ Len(served) = k
           /\ StoppedWithAll

C5_Witness ==
    /\ Returned
    /\ Len(served) >= 2
    /\ served[Len(served)].data = <<>>
    /\ ~RowsReached(Len(served))
    /\ ret.clients # <<>>
    /\ ret.err = nil

(* C6 - Safety-limit termination: when each of the pages 1..10 was served  *)
(* non-empty and left the accumulated count below its totalRows, exactly   *)
(* the pages 1..10 were requested, no 11th page is requested, and the call *)
(* returns the deduplicated records of these pages and a nil error.        *)
C6_SafetyLimit ==
    /\ \A i \in 1..Len(reqLog) : reqLog[i] <= maxPages
    /\ Len(served) <= maxPages
    /\ (/\ Len(served) = maxPages
        /\ \A j \in 1..maxPages : ~RowsReached(j) /\ served[j].data # <<>>)
       => /\ pc \in {"loop", "after_loop", "idle"}
          /\ reqLog = PagesUpTo(maxPages)
          /\ pc = "idle" =>
               /\ ret.op = "ConnectedClients"
               /\ ret.err = nil
               /\ KeepsFirstOccurrences(Flatten(served, maxPages), ret.clients)

C6_Witness ==
    /\ Returned
    /\ Len(served) = maxPages
    /\ \A j \in 1..maxPages : ~RowsReached(j) /\ served[j].data # <<>>
    /\ ret.err = nil
    /\ Len(ret.clients) = 2
    /\ warned

(* C7 - Deduplication: dedupeClients returns the subsequence of its input  *)
(* that keeps, in the original order, exactly the first occurrence of each *)
(* MAC, every MAC of the input is in the output exactly once, and          *)
(* dedupeClients of that output is the output again.                       *)
C7_DedupeFirstOccurrence ==
    /\ dPhase >= 1 => /\ KeepsFirstOccurrences(dIn, dOut)
                      /\ EachMacOnce(dIn, dOut)
    /\ dPhase = 2 => dOut2 = dOut

C7_Witness ==
    /\ dPhase = 2
    /\ Len(dOut) >= 2
    /\ Len(dOut) < Len(dIn)
    /\ dIn[1].MAC = dIn[Len(dIn)].MAC
    /\ dIn[1] # dIn[Len(dIn)]

(* C8 - after successive Authenticator runs, when the latest run succeeded *)
(* the token is the token that run's login returned and the base path is   *)
(* configured root + "/" + the identity that run's discovery returned,     *)
(* whatever earlier runs discovered, and the page request sent next        *)
(* carries that token and is addressed below that base path.               *)
C8_ReauthResetsSession ==
    lastAuth.result = "ok" =>
        /\ lastAuth.tok # ""
        /\ token = lastAuth.tok
        /\ baseURL = RootSlash(lastAuth.id)
        /\ pc = "page" =>
             /\ req.token = lastAuth.tok
             /\ req.url = RootSlash(lastAuth.id) \o Tail(ClientsPath)

C8_Witness ==
    /\ pc = "page"
    /\ retried
    /\ lastAuth.result = "ok"
    /\ Len(tries) = 1
    /\ tries[1].token \notin {"", req.token}
    /\ tries[1].url # req.url
    /\ tries[1].url # StrCat(ConfiguredRoot, ClientsPath)
    /\ HasSuffixSlash(configPath)

(* C9 - one retryOnce call runs the Authenticator at most once and the     *)
(* wrapped operation at most twice; a first attempt that fails with        *)
(* anything but token-expired is returned without a retry and without an   *)
(* Authenticator run; when the Authenticator fails the operation is not    *)
(* executed again and the Authenticator's error is returned.               *)
C9_AtMostOneRetry ==
    (pc \in {"try", "page", "loop", "after_loop"} \/ retried \/ Returned) =>
        /\ TryCount <= 2
        /\ AuthRuns <= 1
        /\ (tries # <<>> /\ tries[1].err \notin {nil, errTokenExpired}) =>
             /\ Returned
             /\ Len(tries) = 1
             /\ authErrs = <<>>
             /\ ret.err = tries[1].err
        /\ (authErrs # <<>> /\ authErrs[1] # nil) =>
             /\ Len(tries) = 1
             /\ pc = "auth_ret" \/ (Returned /\ ret.err = authErrs[1])

C9_Witness ==
    /\ Returned
    /\ Len(tries) = 1
    /\ tries[1].err = errTokenExpired
    /\ authErrs = <<"auth">>
    /\ ret.err = "auth"

(* C10 - the constructor runs the Authenticator exactly once and returns a *)
(* client only if that run succeeded: a client handed to the caller has a  *)
(* non-empty token and the base path configured root + "/" + discovered    *)
(* identity, and when discovery or login fails the constructor returns the *)
(* error and no client.                                                    *)
C10_ConstructorAuthenticates ==
    Constructed =>
        /\ Len(authErrs) = 1
        /\ ret.client <=> authErrs[1] = nil
        /\ ret.client <=> pc = "idle"
        /\ ret.client =>
             /\ ret.err = nil
             /\ token # ""
             /\ token = lastAuth.tok
             /\ lastAuth.id # EmptyString
             /\ baseURL = RootSlash(lastAuth.id)
        /\ ~ret.client =>
             /\ ret.err # nil
             /\ ret.err = authErrs[1]

C10_Witness ==
    /\ Constructed
    /\ ret.client
    /\ token = "t2"
    /\ baseURL = <<"", "b">>
    /\ configPath = EmptyString

-----------------------------------------------------------------------------
\* a client exists and no authenticate() run is in progress on it
ClientAtRest ==
    \/ pc \in {"idle", "loop", "try", "page", "after_loop"}
    \/ (caller = "retryOnce" /\ pc \in {"auth_start", "auth_ret"})

(* C12 as stated - whenever no Authenticator run is in progress on a       *)
(* client, after successful and after failed runs alike, the base path is  *)
(* configured root + "/" + the identity discovered last.                   *)
C12_BasePathIsLastDiscovered ==
    ClientAtRest => baseURL = RootSlash(lastId)

(* C12 - whenever no Authenticator run is in progress on a client used by  *)
(* one caller at a time: if the last run discovered an identity (it        *)
(* succeeded, or it failed at the login), the base path is configured      *)
(* root + "/" + that identity, which is the identity discovered last; if   *)
(* the last run failed before it discovered an identity, the base path is  *)
(* the configured root alone.                                              *)
C12_BasePathAfterAuth ==
    ClientAtRest =>
        /\ lastAuth.result \in {"ok", "failed"}
        /\ lastAuth.result = "ok" => lastAuth.id # EmptyString
        /\ lastAuth.id # EmptyString =>
             /\ lastAuth.id = lastId
             /\ baseURL = RootSlash(lastId)
        /\ lastAuth.id = EmptyString => baseURL = ConfiguredRoot

C12_Witness ==
    /\ Returned
    /\ lastAuth.result = "failed"
    /\ lastAuth.id = EmptyString
    /\ lastId = <<"b">>
    /\ configPath = <<"", "r", "">>
    /\ baseURL = <<"", "r">>

-----------------------------------------------------------------------------
\* a ConnectedClients call is running
InCall ==
    \/ pc \in {"loop", "try", "page", "after_loop"}
    \/ (caller = "retryOnce" /\ pc \in {"auth_start", "auth_info", "auth_login", "auth_ret"})

\* the position of a call inside its page round, counted down to the end of
\* the round: the first request of the page, the authenticate() run, the
\* repeated request
Stage ==
    CASE pc = "loop" -> 10
      [] pc = "try" /\ ~retried -> 9
      [] pc = "page" /\ ~retried -> 8
      [] pc = "auth_start" -> 7
      [] pc = "auth_info" -> 6
      [] pc = "auth_login" -> 5
      [] pc = "auth_ret" -> 4
      [] pc = "try" /\ retried -> 3
      [] pc = "page" /\ retried -> 2
      [] pc = "after_loop" -> 1
      [] OTHER -> 0

\* what a running call has left to do at most: the rounds not yet begun, then
\* the rest of the current round
Rank == (maxPages + 1 - currentPage) * 11 + Stage

\* at most maxPages page rounds, and in each at most two requests of the page
\* and at most one authenticate() run
RoundBounds ==
    (InCall \/ Returned) =>
        /\ Len(reqLog) <= maxPages
        /\ \A i \in 1..Len(reqLog) : reqLog[i] = i
        /\ currentPage <= maxPages + 1
        /\ TryCount <= 2
        /\ AuthRuns <= 1
        /\ Rank >= 0

(* C14 - provided every HTTP request returns, every ConnectedClients call  *)
(* terminates after at most 10 page rounds whatever totalRows and page     *)
(* contents the controller reports, and in each round the page is          *)
(* requested at most twice and the Authenticator runs at most once: every  *)
(* step of a running call, an answered request included, goes to a         *)
(* position of the call or to its return and lowers a non-negative rank    *)
(* that counts the rounds and the positions left.                          *)
C14_Termination ==
    /\ []RoundBounds
    /\ [][InCall => /\ InCall' \/ Returned'
                    /\ Rank' < Rank]_vars

C14_Witness ==
    /\ Returned
    /\ Len(reqLog) = maxPages
    /\ Len(tries) = 2
    /\ Len(authErrs) = 1
    /\ \A k \in 1..Len(served) : served[k].totalRows = NeverRows
    /\ ret.err = nil

-----------------------------------------------------------------------------
\* the authenticate() run of the current call has sent its login request
LoginSent == \E i \in 1..Len(authLog) : authLog[i].kind = "login"

\* the authenticate() run of the current call has returned
AuthReturned == authLog # <<>> /\ pc \notin {"auth_info", "auth_login"}

(* C15 - the login request is sent only after the discovery request of the *)
(* same run was answered with a non-empty controller identity; a run whose *)
(* discovery fails or returns an empty identity fails without a login      *)
(* request, and the token is empty when it returns.                        *)
C15_LoginAfterDiscovery ==
    /\ pc = "auth_login" => LoginSent
    /\ LoginSent =>
         /\ Len(authLog) = 2
         /\ authLog[1] = [kind |-> "info", status |-> StatusOK]
         /\ lastAuth.id # EmptyString
         /\ lastAuth.id = lastId
    /\ (AuthReturned /\ ~LoginSent) =>
         /\ authLog[1].kind = "info"
         /\ Len(authLog) = 1
         /\ lastAuth.id = EmptyString
         /\ lastAuth.result = "failed"
         /\ authErrs # <<>>
         /\ authErrs[Len(authErrs)] # nil
         /\ token = ""
    /\ (AuthReturned /\ lastAuth.id = EmptyString) => ~LoginSent

C15_Witness ==
    /\ Returned
    /\ authLog = <<[kind |-> "info", status |-> StatusOK]>>
    /\ authErrs = <<"discovery">>
    /\ tries[1].token # ""
    /\ token = ""

-----------------------------------------------------------------------------
(* C16 - within one Authenticator run on a client used by one caller at a  *)
(* time, the discovery request in flight is addressed to the configured    *)
(* root and carries an empty token, and the login request in flight is     *)
(* addressed to configured root + "/" + the identity just discovered and   *)
(* carries an empty token, whatever token and base path the session held   *)
(* before the run.                                                         *)
C16_AuthRequestsUseResetSession ==
    /\ pc = "auth_info" =>
         /\ req.kind = "info"
         /\ req.url = StrCat(ConfiguredRoot, InfoPath)
         /\ req.token = ""
    /\ pc = "auth_login" =>
         /\ req.kind = "login"
         /\ lastAuth.id # EmptyString
         /\ req.url = StrCat(RootSlash(lastAuth.id), LoginPath)
         /\ req.token = ""

C16_Witness ==
    /\ pc = "auth_login"
    /\ caller = "retryOnce"
    /\ tries[1].token = "t1"
    /\ tries[1].url = StrCat(RootSlash(<<"a">>), ClientsPath)
    /\ lastAuth.id = <<"b">>
    /\ req.url = <<"", "r", "b", "api", "v2", "login">>

-----------------------------------------------------------------------------
\* the authenticate() run of the current call returned and the call did not
\* go on: it is about to return the error err, or has returned it
EndsCallWith(err) ==
    \/ pc = "auth_ret"
    \/ (Returned /\ ret.err = err /\ ret.clients = <<>>)
    \/ (Constructed /\ ~ret.client /\ ret.err = err)

(* C17 - the Authenticator never retries: one run sends at most one        *)
(* discovery request and then at most one login request; when one of them  *)
(* is answered with HTTP 401 it is the last request of the run, the run    *)
(* returns the token-expired error and no other run is started; when       *)
(* retryOnce started the run it returns that error without running the     *)
(* wrapped operation again.                                                *)
C17_AuthenticatorNeverRetries ==
    /\ AuthRuns <= 1
    /\ Len(authLog) <= 2
    /\ \A i \in 1..Len(authLog) : authLog[i].kind = (IF i = 1 THEN "info" ELSE "login")
    /\ \A i \in 1..Len(authLog) :
         authLog[i].status = StatusUnauthorized =>
            /\ i = Len(authLog)
            /\ authErrs = <<errTokenExpired>>
            /\ lastAuth.result = "failed"
            /\ EndsCallWith(errTokenExpired)
            /\ retried => Len(tries) = 1

C17_Witness ==
    /\ Returned
    /\ authLog = <<[kind |-> "info", status |-> StatusOK],
                   [kind |-> "login", status |-> StatusUnauthorized]>>
    /\ Len(tries) = 1
    /\ ret.err = errTokenExpired

-----------------------------------------------------------------------------
\* the served page k met a stopping condition: the accumulated count has
\* reached its totalRows, or the page is empty
StopAt(k) == RowsReached(k) \/ served[k].data = <<>>

(* C18 - a successful ConnectedClients call has logged the "too many       *)
(* pages" warning if and only if all 10 pages were fetched and none of     *)
(* them met a stopping condition (accumulated count >= totalRows, or empty *)
(* page); a call that first meets a stopping condition on page 10 has not  *)
(* logged it.                                                              *)
C18_TruncationWarning ==
    (Returned /\ ret.err = nil) =>
        (warned <=> /\ Len(served) = maxPages
                    /\ \A k \in 1..maxPages : ~StopAt(k))

C18_Witness ==
    /\ Returned
    /\ ret.err = nil
    /\ Len(served) = maxPages
    /\ \A k \in 1..(maxPages - 1) : ~StopAt(k)
    /\ StopAt(maxPages)
    /\ ~warned

-----------------------------------------------------------------------------
\* the error the last retryOnce round of the call ended with: that of its
\* authenticate() run if the run failed, else that of its last try
RoundError ==
    IF authErrs # <<>> /\ authErrs[1] # nil
    THEN authErrs[1]
    ELSE tries[Len(tries)].err

(* C19 - when the fetch of a page ends in an error after the Retry-Once    *)
(* Policy (application error, HTTP error, decode error, network error,     *)
(* failed re-authentication or second token-expired), ConnectedClients     *)
(* requests no further page and returns that error with no records, even   *)
(* when earlier pages were fetched; records of a listing that met no       *)
(* stopping condition are returned only by the safety limit.               *)
C19_ErrorReturnsNoRecords ==
    /\ (Returned /\ ret.err # nil) =>
         /\ ret.clients = <<>>
         /\ ret.err = RoundError
         /\ reqLog = PagesUpTo(Len(served) + 1)
         /\ currentPage = Len(served) + 1
         /\ ~warned
    /\ (Returned /\ ret.err = nil) =>
         /\ served # <<>>
         /\ \/ StopAt(Len(served))
            \/ (Len(served) = maxPages /\ warned)

C19_Witness ==
    /\ Returned
    /\ ret.err = "app"
    /\ Len(served) = 2
    /\ Len(clients) = 3
    /\ ret.clients = <<>>
    /\ reqLog = <<1, 2, 3>>

-----------------------------------------------------------------------------
\* an authenticate() run is at one of its steps
InAuth == pc \in {"auth_start", "auth_info", "auth_login"}

\* the current ConnectedClients call, so far without an answer classified
\* token-expired, has not run authenticate() and has the session of its entry
UntouchedSession ==
    ((InCall \/ Returned) /\ ~call.expired) =>
        /\ ~InAuth
        /\ pc # "auth_ret"
        /\ authErrs = <<>>
        /\ authLog = <<>>
        /\ token = call.token
        /\ baseURL = call.base

(* C20 - Session State is written only by the Authenticator (and by the    *)
(* construction of the client), and after construction the Authenticator   *)
(* is started only by the step that classified the answer to a wrapped     *)
(* operation as token-expired: a ConnectedClients call in which no answer  *)
(* is classified token-expired never runs the Authenticator and leaves     *)
(* token and base path as they were at its entry, whether it succeeds or   *)
(* fails.                                                                  *)
C20_SessionWrittenOnlyByAuth ==
    /\ []UntouchedSession
    /\ [][(token' # token \/ baseURL' # baseURL) => (InAuth \/ pc \in {"new", "failed"})]_vars
    /\ [][(pc' = "auth_start" /\ pc # "auth_start") =>
             \/ pc \in {"new", "failed"}
             \/ /\ pc = "page"
                /\ tries'[Len(tries')].err = errTokenExpired
                /\ call'.expired]_vars

C20_Witness ==
    /\ Returned
    /\ ~call.expired
    /\ ret.err = "http"
    /\ Len(served) = 1
    /\ token = "t2"
    /\ call.token = "t2"
    /\ baseURL = call.base

-----------------------------------------------------------------------------
(* Calls that run concurrently on one client.  The session fields are      *)
(* locked for one read or one write at a time (Token, SetToken, BaseURL,   *)
(* SetBaseURL), never across a request, so every access is a step of its   *)
(* own.  Each caller fetches a listing of one page through retryOnce.  The *)
(* controller accepts the configured credentials and answers every         *)
(* correctly addressed, correctly authenticated request successfully; it   *)
(* answers a page request without a token it accepts with HTTP 401, and a  *)
(* request to any other address with an HTTP error status.                 *)

\* the identity the controller reports on /api/info
ControllerId == CHOOSE id \in ListingController.ids : TRUE

PageAnswer == [neterr |-> FALSE, status |-> StatusOK, json |-> TRUE, body |-> zeroResult]

InfoAnswer ==
    [neterr |-> FALSE, status |-> StatusOK, json |-> TRUE,
     body |-> [errorCode |-> 0, id |-> ControllerId]]

LoginAnswer(tok) ==
    [neterr |-> FALSE, status |-> StatusOK, json |-> TRUE,
     body |-> [errorCode |-> 0, token |-> tok]]

ErrorAnswers(statuses, zero) ==
    {[neterr |-> FALSE, status |-> st, json |-> FALSE, body |-> zero] : st \in statuses}

\* the answers of the controller to the request rq
ServerAnswers(rq) ==
    CASE rq.kind = "page" ->
           IF rq.url # StrCat(RootSlash(ControllerId), ClientsPath)
           THEN ErrorAnswers(OtherStatuses, zeroResult)
           ELSE IF rq.token \notin srvTokens
           THEN ErrorAnswers({StatusUnauthorized}, zeroResult)
           ELSE {PageAnswer}
      [] rq.kind = "info" ->
           IF rq.url # StrCat(ConfiguredRoot, InfoPath)
           THEN ErrorAnswers(OtherStatuses, [errorCode |-> 0, id |-> EmptyString])
           ELSE {InfoAnswer}
      [] rq.kind = "login" ->
           IF rq.url # StrCat(RootSlash(ControllerId), LoginPath)
           THEN ErrorAnswers(OtherStatuses, [errorCode |-> 0, token |-> ""])
           ELSE {LoginAnswer(tok) : tok \in Tokens}

InitConc ==
    /\ controller = ListingController
    /\ configPath \in controller.roots
    /\ baseURL = RootSlash(ControllerId)
    /\ token \in controller.tokens
    /\ pc = "idle"
    /\ caller = None
    /\ ret = noReturn
    /\ req = noRequest
    /\ authErrs = <<>>
    /\ lastAuth = noAuth
    /\ InitFetch
    /\ InitHist
    /\ InitDedupeIdle
    /\ cpc = [p \in Callers |-> "idle"]
    /\ cretried = [p \in Callers |-> FALSE]
    /\ creq = [p \in Callers |-> noRequest]
    /\ cret = [p \in Callers |-> None]
    /\ srvTokens \in {{}, {token}}
    /\ lastDone = "ok"

\* what the steps of the concurrent callers leave alone
concFrame ==
    <<controller, configPath, pc, caller, ret, req, authErrs, lastAuth, fetchVars, histVars,
      dedupeVars>>

\* ConnectedClients is called; retryOnce starts with retried = false
CStart(p) ==
    /\ cpc[p] = "idle"
    /\ cpc' = [cpc EXCEPT ![p] = "try"]
    /\ cretried' = [cretried EXCEPT ![p] = FALSE]
    /\ UNCHANGED <<baseURL, token, creq, cret, srvTokens, lastDone, concFrame>>

\* getJSON / postJSON: the request is built on c.BaseURL()
CBuild(p) ==
    /\ cpc[p] \in {"try", "a_info", "a_login"}
    /\ LET kind == CASE cpc[p] = "try" -> "page"
                     [] cpc[p] = "a_info" -> "info"
                     [] cpc[p] = "a_login" -> "login"
           path == CASE cpc[p] = "try" -> ClientsPath
                     [] cpc[p] = "a_info" -> InfoPath
                     [] cpc[p] = "a_login" -> LoginPath
       IN /\ creq' = [creq EXCEPT ![p] = [kind |-> kind, url |-> StrCat(baseURL, path),
                                          token |-> "", page |-> 0]]
          /\ cpc' = [cpc EXCEPT ![p] = kind \o "_hdr"]
    /\ UNCHANGED <<baseURL, token, cretried, cret, srvTokens, lastDone, concFrame>>

\* doJSON: the Csrf-Token header is set from c.Token(), the request is sent
CHeader(p) ==
    /\ cpc[p] \in {"page_hdr", "info_hdr", "login_hdr"}
    /\ creq' = [creq EXCEPT ![p].token = token]
    /\ cpc' = [cpc EXCEPT ![p] = creq[p].kind \o "_wait"]
    /\ UNCHANGED <<baseURL, token, cretried, cret, srvTokens, lastDone, concFrame>>

\* the page request is answered; retryOnce re-authenticates or returns
CPageResp(p) ==
    /\ cpc[p] = "page_wait"
    /\ \E resp \in ServerAnswers(creq[p]) :
       LET err == getResult(doJSON(resp), resp.body) IN
       IF shouldRetry(err, cretried[p])
       THEN /\ cretried' = [cretried EXCEPT ![p] = TRUE]
            /\ cpc' = [cpc EXCEPT ![p] = "a_token"]
            /\ cret' = cret
       ELSE /\ cpc' = [cpc EXCEPT ![p] = "done"]
            /\ cret' = [cret EXCEPT ![p] = err]
            /\ cretried' = cretried
    /\ creq' = [creq EXCEPT ![p] = noRequest]
    /\ UNCHANGED <<baseURL, token, srvTokens, lastDone, concFrame>>

\* authenticate: c.SetToken("")
CResetToken(p) ==
    /\ cpc[p] = "a_token"
    /\ token' = authResetToken
    /\ cpc' = [cpc EXCEPT ![p] = "a_base"]
    /\ UNCHANGED <<baseURL, cretried, creq, cret, srvTokens, lastDone, concFrame>>

\* authenticate: c.SetBaseURL("/")
CResetBase(p) ==
    /\ cpc[p] = "a_base"
    /\ LET sb == SetBaseURL(<<"", "">>) IN
       IF sb.err # nil
       THEN /\ baseURL' = baseURL
            /\ cpc' = [cpc EXCEPT ![p] = "done"]
            /\ cret' = [cret EXCEPT ![p] = sb.err]
            /\ lastDone' = "failed"
       ELSE /\ baseURL' = sb.base
            /\ cpc' = [cpc EXCEPT ![p] = "a_info"]
            /\ UNCHANGED <<cret, lastDone>>
    /\ UNCHANGED <<token, cretried, creq, srvTokens, concFrame>>

\* authenticate: /api/info is answered; SetBaseURL(identity), or the run and
\* with it retryOnce return the error
CInfoResp(p) ==
    /\ cpc[p] = "info_wait"
    /\ \E resp \in ServerAnswers(creq[p]) :
       LET id == resp.body.id
           sb == SetBaseURL(id)
           fail == discoveryError(doJSON(resp), id, sb.err)
       IN IF authFailed(fail)
          THEN /\ baseURL' = baseURL
               /\ cpc' = [cpc EXCEPT ![p] = "done"]
               /\ cret' = [cret EXCEPT ![p] = fail]
               /\ lastDone' = "failed"
          ELSE /\ baseURL' = sb.base
               /\ cpc' = [cpc EXCEPT ![p] = "a_login"]
               /\ UNCHANGED <<cret, lastDone>>
    /\ creq' = [creq EXCEPT ![p] = noRequest]
    /\ UNCHANGED <<token, cretried, srvTokens, concFrame>>

\* authenticate: the login is answered; the controller accepts the token it
\* issues; SetToken(token) and goto retry, or the run and retryOnce return the error
CLoginResp(p) ==
    /\ cpc[p] = "login_wait"
    /\ \E resp \in ServerAnswers(creq[p]) :
       LET err == doJSON(resp)
           tok == resp.body.token
           fail == IF err # nil THEN err
                   ELSE IF tok = "" THEN "auth"
                   ELSE nil
       IN IF authFailed(fail)
          THEN /\ cpc' = [cpc EXCEPT ![p] = "done"]
               /\ cret' = [cret EXCEPT ![p] = fail]
               /\ lastDone' = "failed"
               /\ UNCHANGED <<token, srvTokens>>
          ELSE /\ srvTokens' = srvTokens \cup {tok}
               /\ token' = tok
               /\ cpc' = [cpc EXCEPT ![p] = "try"]
               /\ lastDone' = "ok"
               /\ cret' = cret
    /\ creq' = [creq EXCEPT ![p] = noRequest]
    /\ UNCHANGED <<baseURL, cretried, concFrame>>

NextConc ==
    \E p \in Callers :
        \/ CStart(p)
        \/ CBuild(p)
        \/ CHeader(p)
        \/ CPageResp(p)
        \/ CResetToken(p)
        \/ CResetBase(p)
        \/ CInfoResp(p)
        \/ CLoginResp(p)

SpecConc == InitConc /\ [][NextConc]_vars

-----------------------------------------------------------------------------
\* an authenticate() run of some caller is in progress
AuthInProgress ==
    \E p \in Callers :
        cpc[p] \in {"a_token", "a_base", "a_info", "info_hdr", "info_wait",
                    "a_login", "login_hdr", "login_wait"}

(* C11 - whenever no Authenticator run is in progress on a client, the     *)
(* token is non-empty if and only if the Authenticator run that finished   *)
(* last succeeded, also for calls that run concurrently on the client and  *)
(* each re-authenticate.                                                   *)
C11_TokenIffLastAuthSucceeded ==
    ~AuthInProgress => (token # "" <=> lastDone = "ok")

(* C13 - against a controller that accepts the credentials and answers     *)
(* every correctly addressed, correctly authenticated request              *)
(* successfully, no interleaving of two concurrent calls on one client     *)
(* makes either call return an error.                                      *)
C13_ConcurrentCallsSucceed ==
    \A p \in Callers : cpc[p] = "done" => cret[p] = nil

====
